---- MODULE Spec2Model ----
(***************************************************************************)
(* Model of reddit_persona.py: the Identity Resolver                       *)
(* (RedditScraper.extract_username_from_url), the Content Collector        *)
(* (RedditScraper.scrape_user_data), the Profile Synthesizer               *)
(* (PersonaGenerator), the Report Writer (PersonaFileManager) and the two  *)
(* entry points (command_line_interface, streamlit_app).                   *)
(*                                                                         *)
(* Text is modelled as a sequence of one-character strings, so that        *)
(* searching, slicing and formatting are computed character by character.  *)
(***************************************************************************)
EXTENDS Integers, Sequences, FiniteSets, TLC

VARIABLES
    entry,        \* which entry point runs: "cli", "dashboard", or "none"
    url,          \* args.url / the dashboard's reddit_url
    depth,        \* args.depth / scrape_limit
    outputArg,    \* args.output (the dashboard has no such control)
    redditCreds,  \* REDDIT_CLIENT_ID and REDDIT_CLIENT_SECRET are both set
    groqKey,      \* GROQ_API_KEY is set
    feedPosts,    \* the account's submissions, newest first (content API)
    feedComments, \* the account's comments, newest first (content API)
    pc,           \* position of the run
    username,     \* local username
    posts,        \* local list posts of scrape_user_data
    comments,     \* local list comments of scrape_user_data
    user_data,    \* the Collection Result, None before it is returned
    calls,        \* external calls issued so far, in order
    error,        \* the exception that ended the run, None if none
    content,      \* local list content of _prepare_content
    prompt,       \* what generate_persona sent, None before
    persona,      \* the LLM's response text, None before
    fs,           \* the file system: directories and files
    saved,        \* per username, the text and stamp of the last save that returned
    filepath,     \* what save_persona returned, None before
    exitCode,     \* the process's exit code, None while running
    reported,     \* the counts shown to the user, in order
    failedCalls,  \* the external calls that raised
    clock         \* datetime.now()

vars == <<entry, url, depth, outputArg, redditCreds, groqKey, feedPosts,
          feedComments, pc, username, posts, comments, user_data, calls,
          error, content, prompt, persona, fs, saved, filepath, exitCode,
          reported, failedCalls, clock>>

\* A value that may be absent (None, an unassigned local): << >>, or <<v>>.
None == << >>
Some(v) == <<v>>
Get(o) == o[1]

(***************************************************************************)
(* String literals of the program                                          *)
(***************************************************************************)
PatternU == <<"r","e","d","d","i","t",".","c","o","m","/","u","/">>
PatternUser == <<"r","e","d","d","i","t",".","c","o","m","/","u","s","e","r","/">>
PatternUsers == <<"r","e","d","d","i","t",".","c","o","m","/","u","s","e","r","s","/">>
Slash == "/"

\* patterns = [r'reddit\.com/u/([^/]+)', r'reddit\.com/user/([^/]+)',
\*             r'reddit\.com/users/([^/]+)']: the literal part of each, in order.
PatternsNoUsers == <<PatternU, PatternUser>>
Patterns == <<PatternU, PatternUser, PatternUsers>>

Min(a, b) == IF a <= b THEN a ELSE b

\* s[:n]
Take(s, n) == SubSeq(s, 1, Min(n, Len(s)))

\* The literal lit occurs in s starting at index i.
LiteralAt(lit, s, i) ==
    /\ i + Len(lit) - 1 <= Len(s)
    /\ \A k \in 1..Len(lit) : s[i + k - 1] = lit[k]

\* ([^/]+) can start at index j of s: one character that is not a slash.
GroupStartsAt(s, j) == j <= Len(s) /\ s[j] # Slash

\* What ([^/]+) captures from index j: the longest slash-free run.
GroupFrom(s, j) ==
    LET stop == {e \in j..Len(s) : e = Len(s) \/ s[e + 1] = Slash}
        last == CHOOSE e \in stop : \A f \in stop : e <= f
    IN SubSeq(s, j, last)

\* re.search(pattern, url): the leftmost index where the pattern matches, 0 if none.
Search(lit, s) ==
    LET hits == {i \in 1..Len(s) : LiteralAt(lit, s, i) /\ GroupStartsAt(s, i + Len(lit))}
    IN IF hits = {} THEN 0 ELSE CHOOSE i \in hits : \A h \in hits : i <= h

\* extract_username_from_url: the first pattern of the list that matches decides.
ExtractFrom(pats, s) ==
    LET matching == {k \in 1..Len(pats) : Search(pats[k], s) # 0}
    IN IF matching = {}
       THEN [ok |-> FALSE, exc |-> "ValueError", value |-> << >>]
       ELSE LET k == CHOOSE m \in matching : \A o \in matching : m <= o
            IN [ok |-> TRUE, exc |-> "", value |-> GroupFrom(s, Search(pats[k], s) + Len(pats[k]))]

extract_username_from_url(s) == ExtractFrom(Patterns, s)

(***************************************************************************)
(* URLs put to the Identity Resolver: scheme, host, path kind, name, tail  *)
(***************************************************************************)
Schemes == { <<>>, <<"h","t","t","p","s",":","/","/">>,
             <<"h","t","t","p","s",":","/","/","w","w","w",".">> }
RedditHost == <<"r","e","d","d","i","t",".","c","o","m">>
Hosts == { RedditHost, <<"r","e","d","d","i","t","X","c","o","m">>,
           <<"r","e","d","d",".","i","t">> }
ShapeKinds == { <<"u">>, <<"u","s","e","r">>, <<"u","s","e","r","s">> }
Kinds == ShapeKinds \cup { <<"r">>, <<"U","s","e","r">> }
Alice == <<"a","l","i","c","e">>
Bob == <<"b","o","b">>
Names == { <<>>, Alice, <<"u">>, <<"a","?","b">> }
Tails == { <<>>, <<"/">>, <<"/","c","o","m","m","e","n","t","s","/">> }

UrlParts == [scheme : Schemes, host : Hosts, kind : Kinds, name : Names, tail : Tails]

BuildUrl(p) == p.scheme \o p.host \o <<Slash>> \o p.kind \o <<Slash>> \o p.name \o p.tail

\* The URL has one of the three shapes, with <name> = p.name.
HasShape(p) == p.host = RedditHost /\ p.kind \in ShapeKinds /\ p.name # <<>>

(***************************************************************************)
(* Content items                                                           *)
(***************************************************************************)
DigitChars == <<"0","1","2","3","4","5","6","7","8","9">>

\* str(n) for 0 <= n < 1000
Dec(n) ==
    IF n < 10 THEN <<DigitChars[n + 1]>>
    ELSE IF n < 100 THEN <<DigitChars[(n \div 10) + 1], DigitChars[(n % 10) + 1]>>
    ELSE <<DigitChars[(n \div 100) + 1], DigitChars[((n \div 10) % 10) + 1], DigitChars[(n % 10) + 1]>>

\* A text of n characters whose character at index i tells i (mod 10).
Body(n) == [i \in 1..n |-> DigitChars[(i % 10) + 1]]

TitleText == <<"T">>

\* What the content API holds: the i-th newest submission / comment of an account.
Submission(i, title, n) == [id |-> <<"p">> \o Dec(i), title |-> title, selftext |-> Body(n)]
Comment(i, n) == [id |-> <<"c">> \o Dec(i), body |-> Body(n)]

\* The dict appended for a submission (lines 82-90) and for a comment (lines 97-104).
\* subreddit, score, created_utc and url are copied too and read nowhere.
PostDict(submission) ==
    [id |-> submission.id, title |-> submission.title, selftext |-> submission.selftext]
CommentDict(comment) == [id |-> comment.id, body |-> comment.body]

\* The dict scrape_user_data returns (lines 108-114).
CollectionResultSwapped(u, ps, cs) ==
    [username |-> u, posts |-> ps, comments |-> cs,
     total_posts |-> Len(ps), total_comments |-> Len(ps)]
CollectionResult(u, ps, cs) ==
    [username |-> u, posts |-> ps, comments |-> cs,
     total_posts |-> Len(ps), total_comments |-> Len(cs)]

(***************************************************************************)
(* PersonaGenerator._prepare_content                                       *)
(***************************************************************************)
PostCap == 50
CommentCap == 50
BodyCap == 500
MinCommentLen == 10

PostTag == <<"P","O","S","T"," ","[">>
CommentTag == <<"C","O","M","M","E","N","T"," ","[">>
TagEnd == <<"]",":"," ">>
Dash == <<" ","-"," ">>

\* Python truth of a string: non-empty.
Truthy(s) == s # <<>>

\* The lines appended for one post (lines 199-202): one or none.
PostLinesNeedBody(post) ==
    IF Truthy(post.title) /\ Truthy(post.selftext)
    THEN << PostTag \o post.id \o TagEnd \o post.title \o Dash \o Take(post.selftext, BodyCap) >>
    ELSE << >>
PostLines(post) ==
    IF Truthy(post.title) /\ Truthy(post.selftext)
    THEN << PostTag \o post.id \o TagEnd \o post.title \o Dash \o Take(post.selftext, BodyCap) >>
    ELSE IF Truthy(post.title)
    THEN << PostTag \o post.id \o TagEnd \o post.title >>
    ELSE << >>

\* The lines appended for one comment (lines 206-207): one or none.
CommentLinesAtLeast(comment) ==
    IF Truthy(comment.body) /\ Len(comment.body) >= MinCommentLen
    THEN << CommentTag \o comment.id \o TagEnd \o Take(comment.body, BodyCap) >>
    ELSE << >>
CommentLines(comment) ==
    IF Truthy(comment.body) /\ Len(comment.body) > MinCommentLen
    THEN << CommentTag \o comment.id \o TagEnd \o Take(comment.body, BodyCap) >>
    ELSE << >>

\* for post in user_data['posts'][:50]: the lines appended for ps[lo..hi], in order.
\* (Concatenation is associative; the range is halved to keep the evaluation shallow.)
RECURSIVE PostLoop(_, _, _)
PostLoop(ps, lo, hi) ==
    IF lo > hi THEN << >>
    ELSE IF lo = hi THEN PostLines(ps[lo])
    ELSE LET mid == (lo + hi) \div 2
         IN PostLoop(ps, lo, mid) \o PostLoop(ps, mid + 1, hi)

\* for comment in user_data['comments'][:50]: the lines appended for cs[lo..hi], in order.
RECURSIVE CommentLoop(_, _, _)
CommentLoop(cs, lo, hi) ==
    IF lo > hi THEN << >>
    ELSE IF lo = hi THEN CommentLines(cs[lo])
    ELSE LET mid == (lo + hi) \div 2
         IN CommentLoop(cs, lo, mid) \o CommentLoop(cs, mid + 1, hi)

\* The list content when the two loops are over (lines 195-207).
PrepareContentLines(data) ==
    LET ps == Take(data.posts, PostCap)
        cs == Take(data.comments, CommentCap)
    IN PostLoop(ps, 1, Len(ps)) \o CommentLoop(cs, 1, Len(cs))

\* "\n\n".join(lines[lo..hi])
RECURSIVE JoinLines(_, _, _)
JoinLines(lines, lo, hi) ==
    IF lo > hi THEN << >>
    ELSE IF lo = hi THEN lines[lo]
    ELSE LET mid == (lo + hi) \div 2
         IN JoinLines(lines, lo, mid) \o <<"\n","\n">> \o JoinLines(lines, mid + 1, hi)

_prepare_content(data) ==
    LET lines == PrepareContentLines(data) IN JoinLines(lines, 1, Len(lines))

(***************************************************************************)
(* PersonaFileManager                                                      *)
(***************************************************************************)
OutputDir == <<"o","u","t","p","u","t">>
ReportsDir == <<"r","e","p","o","r","t","s">>
ProfileSuffix == <<"_","d","i","g","i","t","a","l","_","p","r","o","f","i","l","e",".","t","x","t">>
GeneratedLabel == <<"\n","\n","P","r","o","f","i","l","e"," ","G","e","n","e","r","a","t","e","d",":"," ">>

\* os.path.join(directory, filename), filename holding no slash
PathJoin(directory, filename) == directory \o <<Slash>> \o filename

\* datetime.now().strftime(...) at clock value t
Stamp(t) == Dec(t)

\* ensure_output_directory (lines 214-218): the directory and the file system after it.
ensure_output_directory(fsys) ==
    [dir |-> OutputDir,
     fs |-> IF OutputDir \in fsys.dirs THEN fsys ELSE [fsys EXCEPT !.dirs = @ \cup {OutputDir}]]

\* open(path, 'w') and the writes: the file holds what was written and nothing else.
WriteAppending(fsys, path, text) ==
    [fsys EXCEPT !.files = (path :> ((IF path \in DOMAIN @ THEN @[path] ELSE << >>) \o text)) @@ @]
WriteFile(fsys, path, text) == [fsys EXCEPT !.files = (path :> text) @@ @]

\* save_persona (lines 221-230): the returned path and the file system after it.
save_persona(fsys, text, user, now) ==
    LET ensured == ensure_output_directory(fsys)
        path == PathJoin(ensured.dir, user \o ProfileSuffix)
    IN [path |-> path,
        fs |-> WriteFile(ensured.fs, path, text \o GeneratedLabel \o Stamp(now))]

(***************************************************************************)
(* Bounds and inputs of the runs                                           *)
(***************************************************************************)
MaxDepth == 2
MaxFeed == 2
MaxSaves == 4
MaxExtra == 1

EmptyMap == [x \in {} |-> x]
EmptyFs == [dirs |-> {}, files |-> EmptyMap]

PersonaTexts == { <<"P","1">>, <<"P","2">> }
OldPersona == <<"P","0">>

\* An account name that holds one of the substrings the except block looks for.
KeyBot == <<"A","P","I","_","K","E","Y","_","b","o","t">>

\* Reddit URLs given to a run: three of a Reddit shape, one that is no Reddit URL, none
\* at all.
RunUrls ==
    { <<"h","t","t","p","s",":","/","/","w","w","w",".">> \o PatternUser \o Alice \o <<Slash>>,
      PatternU \o Bob,
      <<"h","t","t","p","s",":","/","/","r","e","d","d",".","i","t","/","u","/">> \o Alice,
      PatternUser \o KeyBot,
      << >> }

\* The account's submissions and comments as the content API lists them.
PostFeed(n) == [i \in 1..n |-> Submission(i, TitleText, IF i % 2 = 1 THEN 12 ELSE 0)]
CommentFeed(n) == [i \in 1..n |-> Comment(i, IF i % 2 = 1 THEN 11 ELSE 10)]

\* The disk before a run: nothing, or the report of an earlier run for alice.
InitialStores ==
    { [fs |-> EmptyFs, saved |-> EmptyMap],
      [fs |-> [dirs |-> {OutputDir},
               files |-> (PathJoin(OutputDir, Alice \o ProfileSuffix)
                            :> (OldPersona \o GeneratedLabel \o Stamp(0)))],
       saved |-> (Alice :> [text |-> OldPersona, stamp |-> 0])] }

\* The substrings the entry points look for in a failure's text (lines 634-639, 502-507).
NeedleApiKey == <<"a","p","i","_","k","e","y">>
NeedleRateLimit == <<"r","a","t","e","_","l","i","m","i","t">>
NeedleNotFound == <<"n","o","t"," ","f","o","u","n","d">>

\* A failure text of a library that has none of the substrings.
ApiErrorText == <<"r","e","c","e","i","v","e","d"," ","4","0","4"," ","H","T","T","P"," ","r","e","s","p","o","n","s","e">>
\* Error texts of the LLM endpoint: one naming the key, one the rate limit, one neither.
LlmErrors == { <<"I","n","v","a","l","i","d"," ","a","p","i","_","k","e","y">>, <<"r","a","t","e","_","l","i","m","i","t","_","e","x","c","e","e","d","e","d">>, ApiErrorText }
\* Groq(api_key=api_key) without a key (line 122): the client's text names the option.
MissingKeyText == <<"T","h","e"," ","a","p","i","_","k","e","y"," ","c","l","i","e","n","t"," ","o","p","t","i","o","n"," ","m","u","s","t"," ","b","e"," ","s","e","t">>

\* The literal parts of the texts the program raises and shows.
ErrInvalidUrl == <<"I","n","v","a","l","i","d"," ","R","e","d","d","i","t"," ","U","R","L"," ","f","o","r","m","a","t",":"," ">>
ErrScraping == <<"E","r","r","o","r"," ","s","c","r","a","p","i","n","g"," ","u","s","e","r"," ","d","a","t","a",":"," ">>
ErrUserOpen == <<"U","s","e","r"," ","'">>
ErrUserClose == <<"'"," ","n","o","t"," ","f","o","u","n","d"," ","o","r"," ","s","u","s","p","e","n","d","e","d">>
ErrGenerating == <<"E","r","r","o","r"," ","g","e","n","e","r","a","t","i","n","g"," ","p","e","r","s","o","n","a",":"," ">>
MsgNoUrl == <<"P","l","e","a","s","e"," ","p","r","o","v","i","d","e"," ","a"," ","v","a","l","i","d"," ","R","e","d","d","i","t"," ","p","r","o","f","i","l","e"," ","U","R","L"," ","t","o"," ","b","e","g","i","n"," ","a","n","a","l","y","s","i","s",".">>
MsgNoRedditConfig == <<"R","e","d","d","i","t"," ","A","P","I"," ","c","r","e","d","e","n","t","i","a","l","s"," ","n","o","t"," ","c","o","n","f","i","g","u","r","e","d",".">>
MsgNoGroqConfig == <<"G","r","o","q"," ","A","P","I"," ","k","e","y"," ","n","o","t"," ","c","o","n","f","i","g","u","r","e","d",".">>

\* str.lower() on the letters A-Z; other characters are kept.
UpperChars == <<"A","B","C","D","E","F","G","H","I","J","K","L","M","N","O","P","Q","R","S","T","U","V","W","X","Y","Z">>
LowerChars == <<"a","b","c","d","e","f","g","h","i","j","k","l","m","n","o","p","q","r","s","t","u","v","w","x","y","z">>
LowerChar(c) ==
    IF \E i \in 1..Len(UpperChars) : UpperChars[i] = c
    THEN LowerChars[CHOOSE i \in 1..Len(UpperChars) : UpperChars[i] = c]
    ELSE c
Lower(s) == [i \in 1..Len(s) |-> LowerChar(s[i])]

\* sub in s
Contains(sub, s) ==
    \E i \in 1..(Len(s) - Len(sub) + 1) : SubSeq(s, i, i + Len(sub) - 1) = sub

\* The if/elif chain of the except block (lines 634-639, 502-507): the hint shown
\* after the failure's text, "none" when no branch is taken.
Hint(text) ==
    IF Contains(NeedleApiKey, Lower(text)) THEN "groq_credentials"
    ELSE IF Contains(NeedleRateLimit, Lower(text)) THEN "rate_limit"
    ELSE IF Contains(NeedleNotFound, Lower(text)) THEN "user_not_found"
    ELSE "none"

Blank ==
    /\ username = << >>
    /\ posts = << >>
    /\ comments = << >>
    /\ user_data = None
    /\ calls = << >>
    /\ error = None
    /\ content = << >>
    /\ prompt = None
    /\ persona = None
    /\ filepath = None
    /\ exitCode = None
    /\ reported = << >>
    /\ failedCalls = {}
    /\ clock = 1

Init ==
    /\ entry \in {"cli", "dashboard"}
    /\ url \in RunUrls
    /\ depth \in 1..MaxDepth
    /\ outputArg \in IF entry = "cli" THEN {OutputDir, ReportsDir} ELSE {<< >>}
    /\ redditCreds \in BOOLEAN
    /\ groqKey \in BOOLEAN
    /\ feedPosts \in {PostFeed(n) : n \in 0..MaxFeed}
    /\ feedComments \in {CommentFeed(n) : n \in 0..MaxFeed}
    /\ \E st \in InitialStores : fs = st.fs /\ saved = st.saved
    /\ pc = "start"
    /\ Blank

(***************************************************************************)
(* The run, step by step                                                   *)
(***************************************************************************)
Inputs == <<entry, url, depth, outputArg, redditCreds, groqKey, feedPosts, feedComments>>

\* except Exception as e (lines 632-640 and 500-507): the run ends; the CLI exits with 1.
FailExitZero(stage, text) ==
    /\ error' = Some([stage |-> stage, text |-> text])
    /\ pc' = "failed"
    /\ exitCode' = IF entry = "cli" THEN Some(0) ELSE exitCode
Fail(stage, text) ==
    /\ error' = Some([stage |-> stage, text |-> text])
    /\ pc' = "failed"
    /\ exitCode' = IF entry = "cli" THEN Some(1) ELSE exitCode

\* streamlit_app, lines 380-392: the checks made when the button is pressed.
DashboardValidate ==
    /\ entry = "dashboard" /\ pc = "start"
    /\ \/ /\ url = << >>
          /\ error' = Some([stage |-> "no_url", text |-> MsgNoUrl])
          /\ pc' = "returned"
       \/ /\ url # << >> /\ ~redditCreds
          /\ error' = Some([stage |-> "reddit_config", text |-> MsgNoRedditConfig])
          /\ pc' = "returned"
       \/ /\ url # << >> /\ redditCreds /\ ~groqKey
          /\ error' = Some([stage |-> "groq_config", text |-> MsgNoGroqConfig])
          /\ pc' = "returned"
       \/ /\ url # << >> /\ redditCreds /\ groqKey
          /\ pc' = "init"
          /\ error' = error
    /\ UNCHANGED <<Inputs, username, posts, comments, user_data, calls, content, prompt,
                   persona, fs, saved, filepath, exitCode, reported, failedCalls, clock>>

\* RedditScraper(...) (lines 589-593, 405-409): praw.Reddit refuses a missing credential.
InitScraper ==
    /\ \/ entry = "cli" /\ pc = "start"
       \/ entry = "dashboard" /\ pc = "init"
    /\ \/ /\ redditCreds
          /\ pc' = "extract"
          /\ UNCHANGED <<error, exitCode>>
       \/ /\ ~redditCreds
          /\ Fail("init", ApiErrorText)
    /\ UNCHANGED <<Inputs, username, posts, comments, user_data, calls, content, prompt,
                   persona, fs, saved, filepath, reported, failedCalls, clock>>

\* username = scraper.extract_username_from_url(url) (lines 596, 412)
ExtractUsername ==
    /\ pc = "extract"
    /\ LET r == extract_username_from_url(url)
       IN \/ /\ r.ok
             /\ username' = r.value
             /\ pc' = "lookup"
             /\ UNCHANGED <<error, exitCode>>
          \/ /\ ~r.ok
             /\ Fail("extract", ErrInvalidUrl \o url)
             /\ UNCHANGED username
    /\ UNCHANGED <<Inputs, posts, comments, user_data, calls, content, prompt,
                   persona, fs, saved, filepath, reported, failedCalls, clock>>

\* scrape_user_data, lines 67-77: the account lookup. The account has an id; or it has
\* none (ValueError "... not found or suspended"); or the lookup itself raises.
Lookup ==
    /\ pc = "lookup"
    /\ calls' = Append(calls, "redditor")
    /\ \/ /\ pc' = "posts"
          /\ UNCHANGED <<error, exitCode, failedCalls>>
       \/ /\ Fail("lookup", ErrScraping \o ErrUserOpen \o username \o ErrUserClose)
          /\ failedCalls' = failedCalls \cup {"redditor"}
       \/ /\ Fail("lookup_api", ErrScraping \o ApiErrorText)
          /\ failedCalls' = failedCalls \cup {"redditor"}
    /\ UNCHANGED <<Inputs, username, posts, comments, user_data, content, prompt,
                   persona, fs, saved, filepath, reported, clock>>

\* except Exception as e: print(...) (lines 91-92, 105-106): the list is left as it is.
KeptOnErrorNone(items) == << >>
KeptOnError(items) == items

\* How many items the listing yields: limit=limit caps it.
Available(feed) == Min(depth, Len(feed))

\* for submission in user.submissions.new(limit=limit) (lines 80-92): one turn of the loop.
\* The listing yields the next submission, or is exhausted, or raises.
PostsNextFatal ==
    /\ pc = "posts"
    /\ calls' = IF posts = << >> THEN Append(calls, "posts") ELSE calls
    /\ \/ /\ Len(posts) < Available(feedPosts)
          /\ posts' = Append(posts, PostDict(feedPosts[Len(posts) + 1]))
          /\ UNCHANGED <<pc, failedCalls, error, exitCode>>
       \/ /\ Len(posts) = Available(feedPosts)
          /\ pc' = "comments"
          /\ UNCHANGED <<posts, failedCalls, error, exitCode>>
       \/ /\ failedCalls' = failedCalls \cup {"posts"}
          /\ Fail("posts", ErrScraping \o ApiErrorText)
          /\ UNCHANGED posts
    /\ UNCHANGED <<Inputs, username, comments, user_data, content, prompt,
                   persona, fs, saved, filepath, reported, clock>>
PostsNext ==
    /\ pc = "posts"
    /\ calls' = IF posts = << >> THEN Append(calls, "posts") ELSE calls
    /\ \/ /\ Len(posts) < Available(feedPosts)
          /\ posts' = Append(posts, PostDict(feedPosts[Len(posts) + 1]))
          /\ UNCHANGED <<pc, failedCalls>>
       \/ /\ Len(posts) = Available(feedPosts)
          /\ pc' = "comments"
          /\ UNCHANGED <<posts, failedCalls>>
       \/ /\ failedCalls' = failedCalls \cup {"posts"}
          /\ pc' = "comments"
          /\ posts' = KeptOnError(posts)
    /\ UNCHANGED <<Inputs, username, comments, user_data, error, content, prompt,
                   persona, fs, saved, filepath, exitCode, reported, clock>>

\* for comment in user.comments.new(limit=limit) (lines 95-106), and the return (108-114).
CommentsNext ==
    /\ pc = "comments"
    /\ calls' = IF comments = << >> THEN Append(calls, "comments") ELSE calls
    /\ \/ /\ Len(comments) < Available(feedComments)
          /\ comments' = Append(comments, CommentDict(feedComments[Len(comments) + 1]))
          /\ UNCHANGED <<pc, failedCalls, user_data>>
       \/ /\ Len(comments) = Available(feedComments)
          /\ user_data' = Some(CollectionResult(username, posts, comments))
          /\ pc' = "collected"
          /\ UNCHANGED <<comments, failedCalls>>
       \/ /\ failedCalls' = failedCalls \cup {"comments"}
          /\ comments' = KeptOnError(comments)
          /\ user_data' = Some(CollectionResult(username, posts, comments'))
          /\ pc' = "collected"
    /\ UNCHANGED <<Inputs, username, posts, error, content, prompt,
                   persona, fs, saved, filepath, exitCode, reported, clock>>

\* A line or widget showing the counts of the Collection Result.
CountsShown(where) ==
    [where |-> where, posts |-> Get(user_data).total_posts,
     comments |-> Get(user_data).total_comments]

\* Lines 601-605 and 419-424: the CLI prints the counts; PersonaGenerator(GROQ_API_KEY)
\* builds the Groq client, which refuses a missing key.
MakeGenerator ==
    /\ pc = "collected"
    /\ reported' = IF entry = "cli" THEN Append(reported, CountsShown("collected")) ELSE reported
    /\ \/ /\ groqKey
          /\ pc' = "llm_test"
          /\ UNCHANGED <<error, exitCode>>
       \/ /\ ~groqKey
          /\ Fail("llm_client", MissingKeyText)
    /\ UNCHANGED <<Inputs, username, posts, comments, user_data, calls, content, prompt,
                   persona, fs, saved, filepath, failedCalls, clock>>

\* "Test API connection" (lines 607-612, 426-431): a one-token request.
TestConnectionRetrying ==
    /\ pc = "llm_test"
    /\ calls' = Append(calls, "llm_test")
    /\ \/ /\ pc' = "generate"
          /\ UNCHANGED <<error, exitCode, failedCalls>>
       \/ /\ failedCalls' = failedCalls \cup {"llm_test"}
          /\ UNCHANGED <<pc, error, exitCode>>
    /\ UNCHANGED <<Inputs, username, posts, comments, user_data, content, prompt,
                   persona, fs, saved, filepath, reported, clock>>
TestConnectionIgnoringFailure ==
    /\ pc = "llm_test"
    /\ calls' = Append(calls, "llm_test")
    /\ pc' = "generate"
    /\ \/ UNCHANGED <<error, exitCode, failedCalls>>
       \/ /\ \E m \in LlmErrors : error' = Some([stage |-> "llm_test", text |-> m])
          /\ failedCalls' = failedCalls \cup {"llm_test"}
          /\ UNCHANGED exitCode
    /\ UNCHANGED <<Inputs, username, posts, comments, user_data, content, prompt,
                   persona, fs, saved, filepath, reported, clock>>
TestConnection ==
    /\ pc = "llm_test"
    /\ calls' = Append(calls, "llm_test")
    /\ \/ /\ pc' = "generate"
          /\ UNCHANGED <<error, exitCode, failedCalls>>
       \/ /\ \E m \in LlmErrors : Fail("llm_test", m)
          /\ failedCalls' = failedCalls \cup {"llm_test"}
    /\ UNCHANGED <<Inputs, username, posts, comments, user_data, content, prompt,
                   persona, fs, saved, filepath, reported, clock>>

\* generate_persona (lines 125-192): the excerpt, the prompt, the request.
GeneratePersona ==
    /\ pc = "generate"
    /\ content' = PrepareContentLines(Get(user_data))
    /\ prompt' = Some([username |-> Get(user_data).username,
                       total_posts |-> Get(user_data).total_posts,
                       total_comments |-> Get(user_data).total_comments,
                       content |-> _prepare_content(Get(user_data))])
    /\ calls' = Append(calls, "llm_prompt")
    /\ \/ /\ \E text \in PersonaTexts : persona' = Some(text)
          /\ pc' = "save"
          /\ UNCHANGED <<error, exitCode, failedCalls>>
       \/ /\ \E m \in LlmErrors : Fail("llm_prompt", ErrGenerating \o m)
          /\ failedCalls' = failedCalls \cup {"llm_prompt"}
          /\ UNCHANGED persona
    /\ UNCHANGED <<Inputs, username, posts, comments, user_data,
                   fs, saved, filepath, reported, clock>>

\* PersonaFileManager.save_persona(persona, username) (lines 617, 438). makedirs or open
\* may raise (OSError) before anything is written.
SavePersona ==
    /\ pc = "save"
    /\ \/ /\ LET r == save_persona(fs, Get(persona), username, clock)
             IN /\ fs' = r.fs
                /\ filepath' = Some(r.path)
          /\ saved' = (username :> [text |-> Get(persona), stamp |-> clock]) @@ saved
          /\ clock' = clock + 1
          /\ pc' = "saved"
          /\ UNCHANGED <<error, exitCode>>
       \/ /\ Fail("save", {})
          /\ UNCHANGED <<fs, filepath, saved, clock>>
    /\ UNCHANGED <<Inputs, username, posts, comments, user_data, calls, content, prompt,
                   persona, reported, failedCalls>>

\* After the save: the CLI's stats line (629) and return, exit code 0; the dashboard's
\* JSON export (469-478) and metrics (492-496).
Finish ==
    /\ pc = "saved"
    /\ \/ /\ entry = "cli"
          /\ reported' = Append(reported, CountsShown("stats"))
          /\ exitCode' = Some(0)
       \/ /\ entry = "dashboard"
          /\ reported' = reported \o <<CountsShown("json"), CountsShown("metrics")>>
          /\ UNCHANGED exitCode
    /\ pc' = "done"
    /\ UNCHANGED <<Inputs, username, posts, comments, user_data, calls, error, content,
                   prompt, persona, fs, saved, filepath, failedCalls, clock>>

Next ==
    \/ DashboardValidate
    \/ InitScraper
    \/ ExtractUsername
    \/ Lookup
    \/ PostsNext
    \/ CommentsNext
    \/ MakeGenerator
    \/ TestConnection
    \/ GeneratePersona
    \/ SavePersona
    \/ Finish

Spec == Init /\ [][Next]_vars

(***************************************************************************)
(* The Identity Resolver alone: a run standing at the extraction, over a   *)
(* larger set of URLs                                                      *)
(***************************************************************************)
InitURL ==
    /\ entry = "cli"
    /\ url \in {BuildUrl(p) : p \in UrlParts}
    /\ depth = 1
    /\ outputArg = OutputDir
    /\ redditCreds = TRUE
    /\ groqKey = TRUE
    /\ feedPosts = << >>
    /\ feedComments = << >>
    /\ fs = EmptyFs
    /\ saved = EmptyMap
    /\ pc = "extract"
    /\ Blank

NextURL == ExtractUsername

SpecURL == InitURL /\ [][NextURL]_vars

(***************************************************************************)
(* The Profile Synthesizer alone: a run standing at generate_persona, over *)
(* Collection Results around the caps                                      *)
(***************************************************************************)
SampleSizes == {0, 3} \cup (PostCap..(PostCap + MaxExtra))
SamplePostLens == {0, BodyCap, BodyCap + MaxExtra}
SampleCommentLens == {0, MinCommentLen, MinCommentLen + 1, BodyCap, BodyCap + MaxExtra}

\* n items, all plain but one: the first one or the last one.
Special(where, n) == IF where = "first" THEN 1 ELSE n
SamplePosts(n, where, title, len) ==
    [i \in 1..n |-> IF i = Special(where, n) THEN Submission(i, title, len)
                    ELSE Submission(i, TitleText, 3)]
SampleComments(n, where, len) ==
    [i \in 1..n |-> IF i = Special(where, n) THEN Comment(i, len) ELSE Comment(i, 12)]

InitContent ==
    /\ entry = "cli"
    /\ url \in {u \in RunUrls : extract_username_from_url(u).ok
                                /\ extract_username_from_url(u).value = Alice}
    /\ depth = 100
    /\ outputArg = OutputDir
    /\ redditCreds = TRUE
    /\ groqKey = TRUE
    /\ \E where \in {"first", "last"} :
          \/ \E n \in SampleSizes, title \in {<< >>, TitleText}, len \in SamplePostLens,
                m \in {0, CommentCap + MaxExtra} :
                /\ feedPosts = SamplePosts(n, where, title, len)
                /\ feedComments = SampleComments(m, where, MinCommentLen)
          \/ \E m \in SampleSizes, clen \in SampleCommentLens, n \in {3, PostCap + MaxExtra} :
                /\ feedPosts = SamplePosts(n, where, TitleText, BodyCap + MaxExtra)
                /\ feedComments = SampleComments(m, where, clen)
    /\ username = Alice
    /\ posts = [i \in 1..Len(feedPosts) |-> PostDict(feedPosts[i])]
    /\ comments = [i \in 1..Len(feedComments) |-> CommentDict(feedComments[i])]
    /\ user_data = Some(CollectionResult(username, posts, comments))
    /\ calls = <<"redditor", "posts", "comments", "llm_test">>
    /\ reported = <<CountsShown("collected")>>
    /\ fs = EmptyFs
    /\ saved = EmptyMap
    /\ pc = "generate"
    /\ error = None
    /\ content = << >>
    /\ prompt = None
    /\ persona = None
    /\ filepath = None
    /\ exitCode = None
    /\ failedCalls = {}
    /\ clock = 1

NextContent == GeneratePersona

SpecContent == InitContent /\ [][NextContent]_vars

(***************************************************************************)
(* The Report Writer alone: any sequence of save_persona calls             *)
(***************************************************************************)
SaveUsers == {Alice, Bob}

InitSave ==
    /\ entry = "none"
    /\ url = << >>
    /\ depth = 1
    /\ outputArg = << >>
    /\ redditCreds = TRUE
    /\ groqKey = TRUE
    /\ feedPosts = << >>
    /\ feedComments = << >>
    /\ \E st \in InitialStores \cup {[fs |-> [dirs |-> {OutputDir}, files |-> EmptyMap],
                                      saved |-> EmptyMap]} :
          fs = st.fs /\ saved = st.saved
    /\ pc = "filemanager"
    /\ Blank

\* One call save_persona(text, user) that returns.
SaveCall ==
    /\ pc = "filemanager"
    /\ Len(calls) < MaxSaves
    /\ \E text \in PersonaTexts, user \in SaveUsers :
          LET r == save_persona(fs, text, user, clock)
          IN /\ fs' = r.fs
             /\ filepath' = Some(r.path)
             /\ saved' = (user :> [text |-> text, stamp |-> clock]) @@ saved
             /\ calls' = Append(calls, [user |-> user, text |-> text])
    /\ clock' = clock + 1
    /\ UNCHANGED <<Inputs, pc, username, posts, comments, user_data, error, content,
                   prompt, persona, exitCode, reported, failedCalls>>

NextSave == SaveCall

SpecSave == InitSave /\ [][NextSave]_vars

(***************************************************************************)
(* Properties                                                              *)
(***************************************************************************)
IsPrefixOf(pre, s) == Len(pre) <= Len(s) /\ SubSeq(s, 1, Len(pre)) = pre
Count(seq, x) == Cardinality({i \in DOMAIN seq : seq[i] = x})
ContentApiCalls == {"redditor", "posts", "comments"}
LlmCalls == {"llm_test", "llm_prompt"}

\* C1: a URL of one of the shapes reddit.com/u/<name>, reddit.com/user/<name>,
\* reddit.com/users/<name> (<name> the non-empty run up to the next slash) resolves to
\* exactly <name>; any other URL fails with the invalid-format error and no username.
ExtractReturnsName ==
    pc # "extract" =>
        \A p \in UrlParts :
            BuildUrl(p) = url =>
                IF HasShape(p)
                THEN pc = "lookup" /\ username = p.name /\ error = None
                ELSE pc = "failed" /\ username = << >> /\ error # None
                     /\ Get(error).stage = "extract"

ExtractReturnsNameWitness ==
    /\ pc = "lookup"
    /\ \E p \in UrlParts :
          /\ BuildUrl(p) = url /\ HasShape(p)
          /\ p.kind = <<"u","s","e","r","s">> /\ p.tail # << >> /\ p.scheme # << >>
          /\ username = p.name

\* C2: the counts of the Collection Result, and every count shown (CLI lines, dashboard
\* metrics, JSON export, prompt), equal the numbers of items collected and do not
\* exceed the requested limit.
CountsMatchItems ==
    /\ user_data # None =>
          /\ Get(user_data).posts = posts
          /\ Get(user_data).comments = comments
          /\ Get(user_data).total_posts = Len(posts)
          /\ Get(user_data).total_comments = Len(comments)
          /\ Get(user_data).total_posts <= depth
          /\ Get(user_data).total_comments <= depth
    /\ \A i \in DOMAIN reported :
          reported[i].posts = Len(posts) /\ reported[i].comments = Len(comments)
    /\ prompt # None =>
          Get(prompt).total_posts = Len(posts) /\ Get(prompt).total_comments = Len(comments)

CountsMatchItemsWitness ==
    /\ pc = "done" /\ entry = "dashboard"
    /\ Len(posts) = 1 /\ comments = << >>
    /\ Len(posts) < depth
    /\ Len(reported) = 2
    /\ reported[2].posts = 1 /\ reported[2].comments = 0

\* C3 as stated: a category whose fetch failed, at whatever point, is empty in the
\* Collection Result and has count 0.
FailedFetchYieldsEmpty ==
    user_data # None =>
        /\ "posts" \in failedCalls =>
              Get(user_data).posts = << >> /\ Get(user_data).total_posts = 0
        /\ "comments" \in failedCalls =>
              Get(user_data).comments = << >> /\ Get(user_data).total_comments = 0

\* C3 as amended: a fetch that fails leaves the items received before the failure in
\* the list; the Collection Result holds exactly them, counted, for that category (so
\* an empty sequence and 0 when the fetch failed before its first item).
FailedFetchKeepsReceived ==
    [][ /\ (pc = "posts" /\ "posts" \in failedCalls') => posts' = posts
        /\ (pc = "comments" /\ "comments" \in failedCalls') => comments' = comments
        /\ (pc = "comments" /\ pc' = "collected") =>
              /\ Get(user_data').posts = posts
              /\ Get(user_data').comments = comments
              /\ Get(user_data').total_posts = Len(posts)
              /\ Get(user_data').total_comments = Len(comments)
              /\ (comments = << >> => Get(user_data').total_comments = 0)
      ]_vars

FailedFetchKeepsReceivedWitness ==
    /\ user_data # None
    /\ "comments" \in failedCalls /\ "posts" \notin failedCalls
    /\ Len(Get(user_data).comments) = 1 /\ Get(user_data).total_comments = 1
    /\ Get(user_data).posts # << >>

\* The lines of the excerpt, by kind.
PostLineIdx == {i \in DOMAIN content : IsPrefixOf(PostTag, content[i])}
CommentLineIdx == {i \in DOMAIN content : IsPrefixOf(CommentTag, content[i])}

\* The line is the one of this post: its id and title, then nothing or at most the
\* first BodyCap characters of its body.
LineIsOfPost(line, post) ==
    LET head == PostTag \o post.id \o TagEnd \o post.title
    IN /\ IsPrefixOf(head, line)
       /\ \/ line = head
          \/ /\ IsPrefixOf(head \o Dash, line)
             /\ LET rest == SubSeq(line, Len(head) + Len(Dash) + 1, Len(line))
                IN Len(rest) <= BodyCap /\ IsPrefixOf(rest, post.selftext)

\* The line is the one of this comment: its id, then at most the first BodyCap
\* characters of its body.
LineIsOfComment(line, comment) ==
    LET head == CommentTag \o comment.id \o TagEnd
    IN /\ IsPrefixOf(head, line)
       /\ LET rest == SubSeq(line, Len(head) + 1, Len(line))
          IN Len(rest) <= BodyCap /\ IsPrefixOf(rest, comment.body)

PostSources(i) ==
    {k \in 1..Min(Len(Get(user_data).posts), PostCap) :
        LineIsOfPost(content[i], Get(user_data).posts[k])}
CommentSources(i) ==
    {k \in 1..Min(Len(Get(user_data).comments), CommentCap) :
        LineIsOfComment(content[i], Get(user_data).comments[k])}

\* C4: the excerpt has at most min(N,50) POST lines and at most min(M,50) COMMENT
\* lines; every line comes from one of the first 50 items of its sequence, in
\* collector order, and carries at most the first 500 characters of the body; a
\* comment among the first 50 has a line exactly when its body is longer than 10.
ExcerptIsBounded ==
    prompt # None =>
        LET np == Cardinality(PostLineIdx)
            nc == Cardinality(CommentLineIdx)
            psrc == [i \in 1..np |-> PostSources(i)]
            csrc == [i \in (np + 1)..(np + nc) |-> CommentSources(i)]
        IN /\ np <= Min(Len(Get(user_data).posts), PostCap)
           /\ nc <= Min(Len(Get(user_data).comments), CommentCap)
           /\ PostLineIdx = 1..np
           /\ CommentLineIdx = (np + 1)..Len(content)
           /\ \A i \in 1..np : psrc[i] # {}
           /\ \A i \in (np + 1)..(np + nc) : csrc[i] # {}
           /\ \A i \in 1..(np - 1) : \A a \in psrc[i], b \in psrc[i + 1] : a < b
           /\ \A i \in (np + 1)..(np + nc - 1) : \A a \in csrc[i], b \in csrc[i + 1] : a < b
           /\ \A k \in 1..Min(Len(Get(user_data).comments), CommentCap) :
                 (\E i \in (np + 1)..(np + nc) : k \in csrc[i])
                     <=> Len(Get(user_data).comments[k].body) > MinCommentLen

ExcerptIsBoundedWitness ==
    /\ prompt # None
    /\ Len(Get(user_data).posts) > PostCap
    /\ Len(Get(user_data).comments) > CommentCap
    /\ Len(Get(user_data).posts[1].selftext) > BodyCap
    /\ Len(Get(user_data).comments[1].body) = MinCommentLen
    /\ Cardinality(PostLineIdx) = PostCap
    /\ Cardinality(CommentLineIdx) = CommentCap - 1

\* C5 as stated: each of the first 50 posts has exactly one POST line, whatever its
\* title; 3 posts and no comments give exactly 3 POST lines and no COMMENT line.
OnePostLinePerPost ==
    prompt # None =>
        /\ Cardinality(PostLineIdx) = Min(Len(Get(user_data).posts), PostCap)
        /\ (Len(Get(user_data).posts) = 3 /\ Get(user_data).comments = << >>) =>
              Len(content) = 3 /\ CommentLineIdx = {}

\* The lines of the excerpt that carry this post's id.
LinesWithPostId(post) ==
    {i \in DOMAIN content : IsPrefixOf(PostTag \o post.id \o TagEnd, content[i])}

\* C5 as amended: each of the first 50 posts with a non-empty title has exactly one
\* POST line, with the body part exactly when the post has a body; a post with an
\* empty title has none; so 3 titled posts and no comments give exactly 3 POST lines
\* and no COMMENT line.
OnePostLinePerTitledPost ==
    prompt # None =>
        LET ps == Take(Get(user_data).posts, PostCap)
        IN /\ \A k \in DOMAIN ps :
                 IF ps[k].title # << >>
                 THEN /\ Cardinality(LinesWithPostId(ps[k])) = 1
                      /\ \A i \in LinesWithPostId(ps[k]) :
                            content[i] = PostTag \o ps[k].id \o TagEnd \o ps[k].title
                                \o (IF ps[k].selftext # << >>
                                    THEN Dash \o Take(ps[k].selftext, BodyCap) ELSE << >>)
                 ELSE LinesWithPostId(ps[k]) = {}
           /\ Cardinality(PostLineIdx) = Cardinality({k \in DOMAIN ps : ps[k].title # << >>})
           /\ ( /\ Len(Get(user_data).posts) = 3
                /\ \A k \in DOMAIN ps : ps[k].title # << >>
                /\ Get(user_data).comments = << >> ) =>
                 Len(content) = 3 /\ PostLineIdx = {1, 2, 3} /\ CommentLineIdx = {}

OnePostLinePerTitledPostWitness ==
    /\ prompt # None
    /\ Len(Get(user_data).posts) = 3
    /\ Get(user_data).comments = << >>
    /\ Get(user_data).posts[1].title # << >>
    /\ Get(user_data).posts[1].selftext = << >>
    /\ Len(content) = 3

\* C6 as stated: with the LLM API key absent, no content-API call is made.
MissingLlmKeyStopsBeforeContentApi ==
    ~groqKey => \A i \in DOMAIN calls : calls[i] \notin ContentApiCalls

\* C7 as stated: the LLM endpoint receives a single request in a run, and no external
\* call is issued again after it failed.
SingleLlmRequestNoRetry ==
    /\ Cardinality({i \in DOMAIN calls : calls[i] \in LlmCalls}) <= 1
    /\ \A c \in failedCalls : Count(calls, c) = 1

\* C7 as amended: the LLM endpoint receives at most two requests in a run, a one-token
\* connection test and then, only if the test succeeded, the single request carrying
\* the prompt; no external call is issued again after it failed.
TestThenSinglePrompt ==
    /\ Count(calls, "llm_test") <= 1
    /\ Count(calls, "llm_prompt") <= 1
    /\ \A i \in DOMAIN calls :
          calls[i] = "llm_prompt" =>
              /\ i > 1 /\ calls[i - 1] = "llm_test"
              /\ "llm_test" \notin failedCalls
    /\ prompt # None <=> Count(calls, "llm_prompt") = 1
    /\ \A c \in failedCalls : Count(calls, c) = 1
    /\ \A c \in failedCalls \ {"posts", "comments"} : calls[Len(calls)] = c /\ pc = "failed"

TestThenSinglePromptWitness ==
    /\ pc = "done"
    /\ Count(calls, "llm_test") = 1 /\ Count(calls, "llm_prompt") = 1
    /\ "posts" \in failedCalls

\* C8: command_line_interface exits with 1 exactly when a stage failed, with 0 exactly
\* when all stages succeeded; a fetch failure of one category alone gives no exit 1.
ExitCodeReflectsFailure ==
    entry = "cli" =>
        /\ exitCode = Some(1) <=> error # None
        /\ exitCode = Some(1) <=> pc = "failed"
        /\ exitCode = Some(0) <=> pc = "done"
        /\ pc \notin {"failed", "done"} => exitCode = None
        /\ pc = "done" => filepath # None /\ persona # None

ExitCodeReflectsFailureWitness ==
    /\ entry = "cli" /\ pc = "done" /\ exitCode = Some(0)
    /\ "comments" \in failedCalls /\ "posts" \notin failedCalls

\* The report path of a username.
ReportPath(user) == OutputDir \o <<Slash>> \o user \o ProfileSuffix

\* C9: save_persona writes output/<username>_digital_profile.txt, creating the
\* directory if missing and leaving it if present; after any sequence of calls the
\* file of a username holds the last call's text followed by one "Profile Generated:"
\* line and nothing of an earlier call.
SaveOverwrites ==
    /\ \A user \in DOMAIN saved :
          /\ ReportPath(user) \in DOMAIN fs.files
          /\ fs.files[ReportPath(user)] =
                saved[user].text \o GeneratedLabel \o Stamp(saved[user].stamp)
    /\ DOMAIN fs.files = {ReportPath(user) : user \in DOMAIN saved}
    /\ fs.dirs \subseteq {OutputDir}
    /\ calls # << >> =>
          /\ fs.dirs = {OutputDir}
          /\ filepath = Some(ReportPath(calls[Len(calls)].user))
          /\ saved[calls[Len(calls)].user].text = calls[Len(calls)].text

SaveOverwritesWitness ==
    /\ Len(calls) >= 2
    /\ \E i \in 1..(Len(calls) - 1) :
          /\ calls[i].user = calls[Len(calls)].user
          /\ calls[i].text # calls[Len(calls)].text

\* C10 as stated: a successful CLI run saves the report in the --output directory.
ReportWrittenUnderOutputFlag ==
    (entry = "cli" /\ pc \in {"saved", "done"}) =>
        /\ filepath = Some(PathJoin(outputArg, username \o ProfileSuffix))
        /\ PathJoin(outputArg, username \o ProfileSuffix) \in DOMAIN fs.files

\* The stage a position of the run belongs to: 0 before the pipeline, 1 Identity
\* Resolver, 2 Content Collector, 3 Profile Synthesizer, 4 Report Writer, 5 after it.
StageOf(p) ==
    CASE p \in {"start", "init"} -> 0
      [] p = "extract" -> 1
      [] p \in {"lookup", "posts", "comments"} -> 2
      [] p \in {"collected", "llm_test", "generate"} -> 3
      [] p = "save" -> 4
      [] OTHER -> 5
Ended == {"failed", "returned", "done"}

\* C11: the stages run in the order Identity Resolver, Content Collector, Profile
\* Synthesizer, Report Writer, each starting only when the one before it completed
\* successfully; after a fatal failure nothing more happens; the report file is written
\* only when URL resolution, collection and the LLM call all succeeded.
StagesInOrder ==
    /\ [](error # None => pc \in {"failed", "returned"})
    /\ [][ /\ pc \notin Ended
           /\ pc' \in Ended \/ StageOf(pc') \in {StageOf(pc), StageOf(pc) + 1}
           /\ (pc' = "lookup") => (pc = "extract" /\ username' # << >>)
           /\ (pc' = "collected") => (pc = "comments" /\ user_data' # None)
           /\ (pc' = "save") => (pc = "generate" /\ prompt' # None /\ persona' # None)
           /\ (pc' = "saved") => (pc = "save" /\ filepath' # None)
           /\ (calls' # calls) =>
                 \/ StageOf(pc) = 2 /\ calls'[Len(calls')] \in ContentApiCalls
                 \/ StageOf(pc) = 3 /\ calls'[Len(calls')] \in LlmCalls /\ user_data # None
           /\ (fs' # fs \/ filepath' # filepath) =>
                 /\ pc = "save" /\ pc' = "saved"
                 /\ username # << >> /\ user_data # None /\ persona # None
                 /\ error = None
                 /\ {"redditor", "llm_test", "llm_prompt"} \cap failedCalls = {}
                 /\ Count(calls, "redditor") = 1 /\ Count(calls, "llm_prompt") = 1
       ]_vars

StagesInOrderWitness ==
    /\ pc = "done" /\ entry = "dashboard"
    /\ filepath # None
    /\ Get(filepath) \in DOMAIN fs.files
    /\ calls = <<"redditor", "posts", "comments", "llm_test", "llm_prompt">>

\* What a fetch that does not fail collects from a listing: its first Available items.
Fetched(feed, dict(_)) == [i \in 1..Available(feed) |-> dict(feed[i])]

\* C12: a failed fetch of one category is not fatal and leaves the other fetch alone:
\* after the posts fetch, failed or not, the comments fetch is attempted once and, unless
\* it fails itself, collects what it would have collected anyway (and the same for the
\* posts); scrape_user_data returns a Collection Result without raising, and the run
\* stands at the Profile Synthesizer, from where it goes on as any other run.
FetchesIndependent ==
    /\ [][ /\ pc = "posts" =>
                 pc' \in {"posts", "comments"} /\ error' = None /\ exitCode' = None
           /\ pc = "comments" =>
                 /\ pc' \in {"comments", "collected"} /\ error' = None /\ exitCode' = None
                 /\ Count(calls', "comments") = 1 /\ Count(calls', "posts") = 1
                 /\ posts' = posts
       ]_vars
    /\ [](error # None => Get(error).stage \notin {"posts", "comments"})
    /\ [](pc = "collected" =>
             /\ user_data # None /\ error = None
             /\ ENABLED MakeGenerator
             /\ "posts" \notin failedCalls =>
                   Get(user_data).posts = Fetched(feedPosts, PostDict)
             /\ "comments" \notin failedCalls =>
                   Get(user_data).comments = Fetched(feedComments, CommentDict))
    /\ []((pc \in {"llm_test", "generate", "save", "saved"} /\ failedCalls \cap {"posts", "comments"} # {})
             => ENABLED Next)

FetchesIndependentWitness ==
    /\ pc = "done"
    /\ "posts" \in failedCalls /\ "comments" \notin failedCalls
    /\ Len(feedPosts) = 2 /\ Len(feedComments) = 2 /\ depth = 2
    /\ Len(Get(user_data).comments) = 2
    /\ filepath # None /\ prompt # None

\* The hint the entry point shows for the failure the run ended with.
HintShown == Hint(Get(error).text)

\* C13: when the lookup finds no account (no id), the failure's text after wrapping
\* holds "not found", no fetch was attempted, the LLM was not called and no report was
\* written, the run has ended, and the hint shown is the user-not-found one.
UserNotFoundShowsHint ==
    (error # None /\ Get(error).stage = "lookup") =>
        /\ pc = "failed"
        /\ Contains(NeedleNotFound, Lower(Get(error).text))
        /\ \A i \in 1..Len(calls) : calls[i] \notin {"posts", "comments"} \cup LlmCalls
        /\ prompt = None /\ persona = None /\ filepath = None
        /\ HintShown = "user_not_found"

====
